---- MODULE Spec2Model ----
(***************************************************************************)
(* network-monitor: the sampling daemon (internal/monitor), the prober     *)
(* (internal/ping) and the data lifecycle of the sample store              *)
(* (internal/database), as composed by cmd/monitor/main.go.                *)
(*                                                                         *)
(* The specifications share the state and the operators:                   *)
(*   Spec       the coordinator, the workers, the sink and the maintenance *)
(*              task interleaved (goroutines of one process);              *)
(*   SpecLive   Spec with the fairness the Go scheduler gives runnable     *)
(*              goroutines;                                                *)
(*   SpecDB     the store alone: appends, maintenance calls and the clock; *)
(*   SpecHourly the store under hourly maintenance passes over weeks;      *)
(*   SpecQ      the read queries over stored samples;                      *)
(*   SpecStored the store holding the earlier prober's samples;            *)
(*   SpecParse  parsePingOutput over outputs of several lines.             *)
(***************************************************************************)
EXTENDS Integers, Sequences, FiniteSets, TLC

\* ------------------------------------------------------------------ bounds
\* Probes the worker of a single-target configuration performs before its
\* ticker stops firing in the model.  With two targets each worker performs
\* its immediate first ping only (see ProbeLimit).
MaxProbes == 4
\* Slots of the buffered results channel.  monitor.New makes 100; the model
\* scales the buffer so that "full" is reached with MaxProbes probes.
ResultsCap == 2
\* SaveResult calls that fail (the store rejects the write).
MaxSaveFail == 1
\* Zero values the sink may receive from the closed channel before the
\* model stops choosing that select branch.
MaxZeroRecv == 1
\* Hourly ticks of the maintenance ticker in Spec.
MaxMaintTicks == 1
\* SpecDB: rows appended, and advances of the clock.
MaxRows == 3
MaxClockSteps == 2
\* SpecQ: samples stored with one target configured and with two, and long
\* pauses between two samples.
MaxSeq == 11
MaxMixedSeq == 5
MaxGaps == 1
\* SpecParse: lines of one ping output.
MaxLines == 3
\* SpecHourly: clock ticks, counted from the start, in which samples arrive
\* and in which the maintenance task may start.
MaxAppendTicks == 3
\* Clock resolution: ticks per hour.
TicksPerHour == 2
\* Days of every month of the model's calendar.
DaysPerMonth == 30

\* ------------------------------------------------------- program constants
HoursPerDay == 24
AggregateWindowDays == 2
RawRetentionDays == 7
PatternRetentionDays == 90

TicksPerDay == HoursPerDay * TicksPerHour

\* time.Time{}: the zero value's timestamp, far older than any retention.
ZeroTime == 0 - 1
\* time.Now() when the process starts: day 100, 00:00 + one tick.
StartClock == 100 * TicksPerDay + 1

Targets == {"t1", "t2"}
\* The values of config.Targets the model starts from (Validate: not empty).
Configs == {<<"t1">>, <<"t1", "t2">>}

\* ============================================================== the prober
\* The text `ping` prints, as a sequence of tokens.  A "num" token is a
\* maximal run of [0-9.] characters; v is its value in ms, or BadNum when
\* strconv.ParseFloat rejects the run (e.g. "1.2.3").
BadNum == 0 - 1
Tok(k) == [k |-> k, v |-> 0]
Num(n) == [k |-> "num", v |-> n]

\* The patterns with the two summary lines tried before the per-reply lines.
patternsSummaryFirst ==
    << <<"rt4", "NUM", "slash", "CAP", "slash", "NUM", "slash", "NUM", "sp*", "ms">>,
       <<"rt3", "NUM", "slash", "CAP", "slash", "NUM", "sp*", "ms">>,
       <<"timeEq", "CAP", "ms">>,
       <<"timeEq", "CAP", "sp*", "ms">> >>

\* The four regular expressions of parsePingOutput, in their order.  "CAP" is
\* the capture group ([0-9.]+), "NUM" an uncaptured [0-9.]+, "sp*" is \s*.
patterns ==
    << <<"timeEq", "CAP", "ms">>,
       <<"timeEq", "CAP", "sp*", "ms">>,
       <<"rt4", "NUM", "slash", "CAP", "slash", "NUM", "slash", "NUM", "sp*", "ms">>,
       <<"rt3", "NUM", "slash", "CAP", "slash", "NUM", "sp*", "ms">> >>

\* Match pattern pat from element p on at position i of s; the index of the
\* captured token, or 0 when the pattern does not match there.
RECURSIVE MatchFrom(_, _, _, _, _)
MatchFrom(pat, p, s, i, cap) ==
    IF p > Len(pat) THEN cap
    ELSE IF pat[p] = "sp*" THEN
        IF i <= Len(s) /\ s[i].k = "sp"
        THEN MatchFrom(pat, p, s, i + 1, cap)
        ELSE MatchFrom(pat, p + 1, s, i, cap)
    ELSE IF i > Len(s) THEN 0
    ELSE IF pat[p] = "CAP" THEN
        IF s[i].k = "num" THEN MatchFrom(pat, p + 1, s, i + 1, i) ELSE 0
    ELSE IF pat[p] = "NUM" THEN
        IF s[i].k = "num" THEN MatchFrom(pat, p + 1, s, i + 1, cap) ELSE 0
    ELSE IF s[i].k = pat[p] THEN MatchFrom(pat, p + 1, s, i + 1, cap)
    ELSE 0

\* regexp.FindStringSubmatch: the leftmost match; the captured token's value,
\* or NoMatch.
NoMatch == 0 - 2
FindStringSubmatch(pat, s) ==
    LET hits == {i \in 1..Len(s) : MatchFrom(pat, 1, s, i, 0) # 0}
    IN  IF hits = {} THEN NoMatch
        ELSE LET first == CHOOSE i \in hits : \A j \in hits : i <= j
             IN  s[MatchFrom(pat, 1, s, first, 0)].v

\* parsePingOutput: the first pattern that matches and whose capture parses.
RECURSIVE ParseFrom(_, _)
ParseFrom(s, n) ==
    IF n > Len(patterns) THEN 0
    ELSE LET m == FindStringSubmatch(patterns[n], s)
         IN  IF m # NoMatch /\ m # BadNum THEN m ELSE ParseFrom(s, n + 1)

parsePingOutput(s) == ParseFrom(s, 1)

\* models.PingResult.  n is the probe's ordinal at its worker: a ghost field,
\* standing for the distinct time.Now() every probe reads.
PingResult(ts, target, n, success, rtt, loss, msg) ==
    [ts |-> ts, target |-> target, n |-> n, success |-> success,
     rtt |-> rtt, loss |-> loss, msg |-> msg]

\* The zero PingResult a receive from the closed channel yields.
ZeroResult == PingResult(ZeroTime, "", 0, FALSE, 0, 0, "")

\* One run of the ping process: did the context deadline pass, did the
\* process exit with an error, and what it printed.
RunOK       == [deadline |-> FALSE, exitErr |-> FALSE,
                out |-> <<Tok("txt"), Tok("timeEq"), Num(2), Tok("sp"), Tok("ms")>>]
RunUnparsed == [deadline |-> FALSE, exitErr |-> FALSE,
                out |-> <<Tok("txt"), Tok("timeLt"), Num(1), Tok("ms")>>]
RunUnreach  == [deadline |-> FALSE, exitErr |-> TRUE, out |-> <<Tok("txt")>>]
RunTimeout  == [deadline |-> TRUE, exitErr |-> TRUE, out |-> <<>>]
PingRuns == {RunOK, RunUnparsed, RunUnreach, RunTimeout}

\* The earlier Pinger.Ping: a run that exits successfully is a success with
\* whatever parsePingOutput returns, and no error is returned.
PingUnparsedIsSuccess(target, n, now, run) ==
    IF run.deadline \/ run.exitErr
    THEN [result |-> PingResult(now, target, n, FALSE, 0, 0, "exit"), err |-> FALSE]
    ELSE [result |-> PingResult(now, target, n, TRUE, parsePingOutput(run.out), 0, ""),
          err |-> FALSE]

\* Pinger.Ping: the result and whether a non-nil error is returned with it.
Ping(target, n, now, run) ==
    IF run.deadline
    THEN [result |-> PingResult(now, target, n, FALSE, 0, 100, "ping timed out"),
          err |-> TRUE]
    ELSE IF run.exitErr
    THEN [result |-> PingResult(now, target, n, FALSE, 0, 100,
                                IF run.out = <<>> THEN "exit status" ELSE "output"),
          err |-> TRUE]
    ELSE LET rtt == parsePingOutput(run.out)
         IN  IF rtt <= 0
             THEN [result |-> PingResult(now, target, n, FALSE, 0, 100,
                                         "unable to parse round-trip time"),
                   err |-> TRUE]
             ELSE [result |-> PingResult(now, target, n, TRUE, rtt, 0, ""),
                   err |-> FALSE]

\* ========================================================= the sample store
\* Timestamps are clock ticks (UTC).  strftime('%Y-%m-%d'), strftime('%H')
\* and strftime('%Y-%m-%d %H:00:00') of a timestamp:
Date(ts) == ts \div TicksPerDay
Hour(ts) == (ts \div TicksPerHour) % HoursPerDay
HourStamp(ts) == ts \div TicksPerHour

\* A REAL column holds a reduced fraction; SQL NULL, the value of AVG/MAX/MIN
\* over no non-NULL input, is the fraction with denominator 0.
Null == [num |-> 0, den |-> 0]

RECURSIVE Gcd(_, _)
Gcd(a, b) == IF b = 0 THEN a ELSE Gcd(b, a % b)

\* A REAL that is the quotient a/b, kept exact as a reduced fraction.
Frac(a, b) ==
    LET g == Gcd(a, b) IN IF g = 0 THEN [num |-> 0, den |-> 1]
                          ELSE [num |-> a \div g, den |-> b \div g]

\* ROUND(a * 100.0 / b, 2) in hundredths of a percent (half rounds up).
RoundPct(a, b) == (2 * a * 10000 + b) \div (2 * b)

RECURSIVE SumRtt(_)
SumRtt(rows) == IF rows = <<>> THEN 0 ELSE Head(rows).rtt + SumRtt(Tail(rows))

MaxRtt(rows) ==
    IF rows = <<>> THEN Null
    ELSE LET vs == {rows[i].rtt : i \in 1..Len(rows)}
         IN  Frac(CHOOSE v \in vs : \A w \in vs : w <= v, 1)

MinRtt(rows) ==
    IF rows = <<>> THEN Null
    ELSE LET vs == {rows[i].rtt : i \in 1..Len(rows)}
         IN  Frac(CHOOSE v \in vs : \A w \in vs : v <= w, 1)

AvgRtt(rows) == IF rows = <<>> THEN Null ELSE Frac(SumRtt(rows), Len(rows))

IsSuccess(r) == r.success
IsFailure(r) == ~r.success

\* A row of ping_results: the columns SaveResult binds (PacketLoss is not
\* stored).
Row(r) == [ts |-> r.ts, target |-> r.target, n |-> r.n, success |-> r.success,
           rtt |-> r.rtt, msg |-> r.msg]

\* DB.SaveResult: INSERT INTO ping_results.
SaveResult(rows, r) == Append(rows, Row(r))

PatternKey(p) == <<p.date, p.hour, p.target>>

\* The SELECT ... GROUP BY date, hour, target of AggregateHourlyPatterns over
\* the rows newer than now - 2 days.
PatternRows(rows, now) ==
    LET InWin(r) == r.ts > now - AggregateWindowDays * TicksPerDay
        sel  == SelectSeq(rows, InWin)
        keys == {<<Date(sel[i].ts), Hour(sel[i].ts), sel[i].target>> : i \in 1..Len(sel)}
    IN  {LET InGrp(r) == <<Date(r.ts), Hour(r.ts), r.target>> = k
             grp == SelectSeq(sel, InGrp)
             ok  == SelectSeq(grp, IsSuccess)
             bad == SelectSeq(grp, IsFailure)
         IN  [date |-> k[1], hour |-> k[2], target |-> k[3],
              total_pings |-> Len(grp), failed_pings |-> Len(bad),
              avg_rtt_ms |-> AvgRtt(ok), max_rtt_ms |-> MaxRtt(ok),
              failure_rate |-> RoundPct(Len(bad), Len(grp))] : k \in keys}

\* A plain INSERT into a table without its primary key: the selected rows are
\* added next to the stored ones.
AggregateWithoutKey(rows, patt, now) == patt \cup PatternRows(rows, now)

\* An upsert that merges instead of replacing: on a key conflict the counts
\* of the selected row are added to the stored row's.
AggregateIncremental(rows, patt, now) ==
    LET new == PatternRows(rows, now)
        keys == {PatternKey(p) : p \in new}
        Merge(n) ==
            IF \E o \in patt : PatternKey(o) = PatternKey(n)
            THEN LET o == CHOOSE o \in patt : PatternKey(o) = PatternKey(n)
                 IN  [n EXCEPT !.total_pings = @ + o.total_pings,
                               !.failed_pings = @ + o.failed_pings,
                               !.failure_rate = RoundPct(n.failed_pings + o.failed_pings,
                                                         n.total_pings + o.total_pings)]
            ELSE n
    IN  {p \in patt : PatternKey(p) \notin keys} \cup {Merge(n) : n \in new}

\* DB.AggregateHourlyPatterns: INSERT OR REPLACE INTO hourly_patterns.
AggregateHourlyPatterns(rows, patt, now) ==
    LET new == PatternRows(rows, now)
        keys == {PatternKey(p) : p \in new}
    IN  {p \in patt : PatternKey(p) \notin keys} \cup new

\* The SELECT ... GROUP BY hour, target of ArchiveOldData over the rows older
\* than 7 days and newer than 90 days.
StatRows(rows, now) ==
    LET InWin(r) == /\ r.ts < now - RawRetentionDays * TicksPerDay
                    /\ r.ts > now - PatternRetentionDays * TicksPerDay
        sel  == SelectSeq(rows, InWin)
        keys == {<<HourStamp(sel[i].ts), sel[i].target>> : i \in 1..Len(sel)}
    IN  {LET InGrp(r) == <<HourStamp(r.ts), r.target>> = k
             grp == SelectSeq(sel, InGrp)
             ok  == SelectSeq(grp, IsSuccess)
         IN  [hour |-> k[1], target |-> k[2],
              total_pings |-> Len(grp), successful_pings |-> Len(ok),
              avg_rtt_ms |-> AvgRtt(ok), max_rtt_ms |-> MaxRtt(ok),
              min_rtt_ms |-> MinRtt(ok),
              packet_loss_percent |-> RoundPct(Len(grp) - Len(ok), Len(grp))] : k \in keys}

StatKey(h) == <<h.hour, h.target>>

\* INSERT OR REPLACE INTO hourly_stats: on a key conflict the stored row gives
\* way to the selected one.
ArchiveRollupReplace(rows, stats, now) ==
    LET new == StatRows(rows, now)
        keys == {StatKey(h) : h \in new}
    IN  {h \in stats : StatKey(h) \notin keys} \cup new

\* INSERT OR IGNORE INTO hourly_stats.
ArchiveRollup(rows, stats, now) ==
    LET have == {StatKey(h) : h \in stats}
    IN  stats \cup {h \in StatRows(rows, now) : StatKey(h) \notin have}

\* DELETE FROM ping_results WHERE timestamp <= now - 7 days minus one more
\* day: a retention cutoff that is off by a day.
DeleteOldResultsLate(rows, now) ==
    LET Keep(r) == ~(r.ts < now - (RawRetentionDays + 1) * TicksPerDay)
    IN  SelectSeq(rows, Keep)

\* DELETE FROM ping_results WHERE timestamp < datetime('now', '-7 days').
DeleteOldResults(rows, now) ==
    LET Keep(r) == ~(r.ts < now - RawRetentionDays * TicksPerDay)
    IN  SelectSeq(rows, Keep)

\* A pattern cleanup with the raw samples' cutoff: DELETE FROM hourly_patterns
\* WHERE date < date('now', '-7 days').
DeleteOldPatternsEarly(patt, now) ==
    {p \in patt : ~(p.date < Date(now) - RawRetentionDays)}

\* DELETE FROM hourly_patterns WHERE date < date('now', '-90 days').
DeleteOldPatterns(patt, now) ==
    {p \in patt : ~(p.date < Date(now) - PatternRetentionDays)}

\* Calendar: every month has DaysPerMonth days; time.Now().Day() and the
\* month the day lies in.
DayOfMonth(now) == (Date(now) % DaysPerMonth) + 1
Month(now) == Date(now) \div DaysPerMonth

\* An ArchiveOldData that logs a failed statement and carries on: the later
\* statements run whatever failed before them.
ArchiveOldDataCarryOn(rows, patt, stats, now, failAt) ==
    [rows |-> IF failAt = 2 THEN rows ELSE DeleteOldResults(rows, now),
     patt |-> IF failAt = 3 THEN patt ELSE DeleteOldPatterns(patt, now),
     stats |-> IF failAt = 1 THEN stats ELSE ArchiveRollup(rows, stats, now),
     err |-> (failAt # 0), vacuum |-> (DayOfMonth(now) = 1)]

\* DB.ArchiveOldData with its statement number failAt failing (0: none; 4 is
\* the VACUUM of day 1): the tables after the call, the error returned and
\* whether VACUUM was executed.
ArchiveOldData(rows, patt, stats, now, failAt) ==
    IF failAt = 1 THEN [rows |-> rows, patt |-> patt, stats |-> stats, err |-> TRUE,
                        vacuum |-> FALSE]
    ELSE LET st == ArchiveRollup(rows, stats, now) IN
    IF failAt = 2 THEN [rows |-> rows, patt |-> patt, stats |-> st, err |-> TRUE,
                        vacuum |-> FALSE]
    ELSE LET rs == DeleteOldResults(rows, now) IN
    IF failAt = 3 THEN [rows |-> rs, patt |-> patt, stats |-> st, err |-> TRUE,
                        vacuum |-> FALSE]
    ELSE [rows |-> rs, patt |-> DeleteOldPatterns(patt, now), stats |-> st,
          err |-> (failAt = 4), vacuum |-> (DayOfMonth(now) = 1)]

\* ======================================================== the read queries
\* Minimum length of a failure run (HAVING COUNT(*) >= 3).
MinRunLength == 3
\* The window of handleOutages, in days.
OutageWindowDays == 7
\* LIMIT 100 of handleOutages and GetOutages, scaled to the model's sequences.
OutageLimit == 1

\* FROM ping_results WHERE timestamp > datetime('now', '-width').
InWindow(rows, now, width) ==
    LET In(r) == r.ts > now - width IN SelectSeq(rows, In)

\* PARTITION BY target ORDER BY timestamp.  Rows are inserted with increasing
\* timestamps, distinct within a target, so the order by timestamp is the
\* order of insertion.
Partition(rows, t) == LET Of(r) == r.target = t IN SelectSeq(rows, Of)

TargetsOf(rows) == {rows[i].target : i \in 1..Len(rows)}

\* ROW_NUMBER() OVER (PARTITION BY target, success ORDER BY timestamp) of the
\* i-th row of a target's partition.
RowNumberBySuccess(part, i) ==
    Cardinality({j \in 1..i : part[j].success = part[i].success})

\* The CTE grouped_failures / outage_groups: every row in the window with
\* grp = ROW_NUMBER() OVER (PARTITION BY target ...) -
\*       ROW_NUMBER() OVER (PARTITION BY target, success ...).
GroupedFailures(rows, now, width) ==
    LET win == InWindow(rows, now, width)
    IN  UNION {LET part == Partition(win, t)
               IN  {[target |-> t, ts |-> part[i].ts, success |-> part[i].success,
                     grp |-> i - RowNumberBySuccess(part, i)] : i \in 1..Len(part)}
               : t \in TargetsOf(win)}

\* MIN(timestamp), MAX(timestamp), COUNT(*) of one group.
OutageOf(t, grp) ==
    LET tss == {r.ts : r \in grp}
    IN  [target |-> t,
         start_time |-> CHOOSE a \in tss : \A b \in tss : a <= b,
         end_time |-> CHOOSE a \in tss : \A b \in tss : b <= a,
         failed_checks |-> Cardinality(grp)]

\* The same grouping over a whole partition regardless of outcome: the
\* query without "- ROW_NUMBER() OVER (PARTITION BY target, success ...)".
FailureRunsUngrouped(g) ==
    LET keys == {r.target : r \in {x \in g : ~x.success}}
    IN  {o \in {OutageOf(k, {r \in g : ~r.success /\ r.target = k}) : k \in keys} :
            o.failed_checks >= MinRunLength}

\* SELECT target, MIN, MAX, COUNT FROM grouped_failures WHERE success = 0
\* GROUP BY target, grp HAVING COUNT(*) >= 3.
FailureRuns(g) ==
    LET keys == {<<r.target, r.grp>> : r \in {x \in g : ~x.success}}
    IN  {o \in {OutageOf(k[1], {r \in g : ~r.success /\ r.target = k[1] /\ r.grp = k[2]})
                : k \in keys} :
            o.failed_checks >= MinRunLength}

\* ORDER BY start_time DESC LIMIT n: the result sets the statement may return
\* (rows with equal start_time may be cut either way).
LimitLatest(runs, n) ==
    {out \in SUBSET runs :
        /\ Cardinality(out) = IF Cardinality(runs) < n THEN Cardinality(runs) ELSE n
        /\ \A o \in out, p \in runs \ out : p.start_time <= o.start_time}

\* generateTextReport's outageQuery over the last `hours` hours.
outageQuery(rows, now, hours) ==
    FailureRuns(GroupedFailures(rows, now, hours * TicksPerHour))

\* Monitor.handleOutages (main.go): the same query over 7 days, LIMIT 100.
handleOutages(rows, now) ==
    LimitLatest(FailureRuns(GroupedFailures(rows, now, OutageWindowDays * TicksPerDay)),
                OutageLimit)

\* ---------------------------------------------- DB.GetOutages (sliding window)
\* ROWS 9 PRECEDING; failure_count >= 5 AND window_size = 10.
PrecedingRows == 9
FullWindow == 10
MinWindowFailures == 5

\* The CTE windowed_pings: per target, every row of the window with the
\* COUNT(*) and the SUM of failures over the frame of the 9 preceding rows
\* and the row itself.
WindowedPings(rows, now, days) ==
    LET win == InWindow(rows, now, days * TicksPerDay)
    IN  [t \in TargetsOf(win) |->
            LET part == Partition(win, t)
            IN  [i \in 1..Len(part) |->
                    LET lo == IF i - PrecedingRows < 1 THEN 1 ELSE i - PrecedingRows
                    IN  [target |-> t, ts |-> part[i].ts, success |-> part[i].success,
                         window_size |-> i - lo + 1,
                         failure_count |->
                             Cardinality({j \in lo..i : ~part[j].success})]]]

\* is_outage without the test of window_size: a window that is not yet full
\* flags the sample as well.
OutagePeriodsAnyWindow(wp) ==
    [t \in DOMAIN wp |->
        LET Flag(i) == IF wp[t][i].failure_count >= MinWindowFailures THEN 1 ELSE 0
        IN  [i \in DOMAIN wp[t] |->
                [target |-> t, ts |-> wp[t][i].ts, success |-> wp[t][i].success,
                 is_outage |-> Flag(i),
                 outage_grp |-> i - Cardinality({j \in 1..i : Flag(j) = Flag(i)})]]]

\* The CTE outage_periods: is_outage, and outage_grp = ROW_NUMBER() OVER
\* (PARTITION BY target ...) - ROW_NUMBER() OVER (PARTITION BY target,
\* is_outage ...).
OutagePeriods(wp) ==
    [t \in DOMAIN wp |->
        LET Flag(i) == IF /\ wp[t][i].failure_count >= MinWindowFailures
                          /\ wp[t][i].window_size = FullWindow
                       THEN 1 ELSE 0
        IN  [i \in DOMAIN wp[t] |->
                [target |-> t, ts |-> wp[t][i].ts, success |-> wp[t][i].success,
                 is_outage |-> Flag(i),
                 outage_grp |-> i - Cardinality({j \in 1..i : Flag(j) = Flag(i)})]]]

\* The rows of outage_periods WHERE is_outage = 1.
Flagged(op) ==
    UNION {{op[t][i] : i \in {j \in DOMAIN op[t] : op[t][j].is_outage = 1}} : t \in DOMAIN op}

\* SELECT target, MIN, MAX, COUNT FROM outage_periods WHERE is_outage = 1
\* GROUP BY target, outage_grp.
OutageGroups(op) ==
    LET fl == Flagged(op)
        keys == {<<r.target, r.outage_grp>> : r \in fl}
    IN  {OutageOf(k[1], {r \in fl : r.target = k[1] /\ r.outage_grp = k[2]}) : k \in keys}

\* DB.GetOutages(days): the result sets the query may return.
GetOutages(rows, now, days) ==
    LimitLatest(OutageGroups(OutagePeriods(WindowedPings(rows, now, days))), OutageLimit)

\* ------------------------------------------------------------- DB.GetStats
\* The window of Server.handleStats, in hours.
StatsWindowHours == 24

\* SELECT target, COUNT(*), SUM(success), AVG, MAX, MIN, ROUND(...) FROM
\* ping_results WHERE timestamp > datetime('now', '-hours') GROUP BY target.
\* packet_loss is in hundredths of a percent.
StatsRows(rows, now, hours) ==
    LET win == InWindow(rows, now, hours * TicksPerHour)
    IN  {LET part == Partition(win, t)
             ok == SelectSeq(part, IsSuccess)
         IN  [target |-> t, total_pings |-> Len(part), successful_pings |-> Len(ok),
              avg_rtt |-> AvgRtt(ok), max_rtt |-> MaxRtt(ok), min_rtt |-> MinRtt(ok),
              packet_loss |-> RoundPct(Len(part) - Len(ok), Len(part))]
         : t \in TargetsOf(win)}

\* rows.Scan(&s.Target, ..., &s.AvgRTT, &s.MaxRTT, &s.MinRTT, &s.PacketLoss)
\* succeeds: the destinations are float64, and database/sql refuses to
\* convert NULL to float64.
ScanStats(r) == r.avg_rtt # Null /\ r.max_rtt # Null /\ r.min_rtt # Null

\* DB.GetStats(hours): the rows whose Scan succeeded; the others are skipped
\* by `continue`.
GetStats(rows, now, hours) == {r \in StatsRows(rows, now, hours) : ScanStats(r)}

\* ================================================================ the state
VARIABLES
    targets,         \* config.Targets
    mainPc,          \* main(): "signal" (blocked on sigChan), "close" (inside
                     \* Stop, after cancel), "wait", "returned", "exited"
    startPc,         \* the goroutine running Start(): tasks launched so far
    wg,              \* Monitor.wg: the WaitGroup counter
    ctxDone,         \* Monitor.ctx is cancelled
    results,         \* Monitor.results: the channel's buffer
    closed,          \* Monitor.results is closed
    panicked,        \* a goroutine panicked: the process is gone
    wPc,             \* per target: "idle", "ping", "select", "done"
    sinkPc,          \* "idle", "select", "save", "done"
    sinkItem,        \* the result processResults is saving
    mPc,             \* "idle", "aggregate", "archive", "select", "done"
    ticks,           \* advances of the clock so far (in Spec: the ticks of
                     \* the hourly maintenance ticker)
    clock,           \* time.Now() / datetime('now')
    ping_results,    \* table ping_results, in id order
    hourly_patterns, \* table hourly_patterns
    hourly_stats,    \* table hourly_stats
    vacuums,         \* history: the times at which VACUUM was executed
    last,            \* the last maintenance call or query on the store, its
                     \* time and what it deleted or answered
    nProbes,         \* per target: probes performed so far
    lastProbe,       \* history: the last performPing call: its target and
                     \* run, what Ping returned and how the call ended
    offered,         \* history: results a worker tried to send
    appended,        \* history: rows SaveResult inserted, in order
    preStop,         \* results in the channel that were sent before Stop()
    startedFirst,    \* Start() had returned when Stop() was called
    saveFails,       \* SaveResult calls that failed so far
    zeroRecv         \* zero values received from the closed channel so far

coordVars == <<targets, mainPc, startPc, wg, ctxDone, closed, panicked, startedFirst>>
chanVars  == <<results, preStop>>
workVars  == <<wPc, nProbes, lastProbe, offered>>
sinkVars  == <<sinkPc, sinkItem, saveFails, zeroRecv, appended>>
maintVars == <<mPc, ticks>>
dbVars    == <<ping_results, hourly_patterns, hourly_stats, vacuums, last>>
vars == <<coordVars, chanVars, workVars, sinkVars, maintVars, dbVars, clock>>

\* The tasks Start launches: the sink, one worker per target, maintenance.
NTasks == Len(targets) + 2

\* Probes per worker within the modelled horizon.
ProbeLimit == IF Len(targets) = 1 THEN MaxProbes ELSE 1

\* No probe yet: the run and result fields hold placeholders.
NoProbe == [target |-> "", run |-> RunTimeout,
            ret |-> [result |-> ZeroResult, err |-> FALSE], how |-> "none"]

NoCall == [op |-> "none", err |-> FALSE, at |-> 0, delRows |-> 0, delPatt |-> 0]

\* The state after monitor.New and database.InitSchema.
Init ==
    /\ targets \in Configs
    /\ mainPc = "signal" /\ startPc = 0 /\ wg = 0
    /\ ctxDone = FALSE /\ closed = FALSE /\ panicked = FALSE
    /\ startedFirst = FALSE
    /\ results = <<>> /\ preStop = 0
    /\ wPc = [t \in Targets |-> "idle"]
    /\ nProbes = [t \in Targets |-> 0]
    /\ lastProbe = NoProbe
    /\ offered = {}
    /\ sinkPc = "idle" /\ sinkItem = ZeroResult
    /\ saveFails = 0 /\ zeroRecv = 0 /\ appended = <<>>
    /\ mPc = "idle" /\ ticks = 0
    /\ clock = StartClock
    /\ ping_results = <<>> /\ hourly_patterns = {} /\ hourly_stats = {}
    /\ vacuums = {}
    /\ last = NoCall

\* The process runs: no goroutine panicked and main has not returned.
Alive == ~panicked /\ mainPc # "exited"

\* ------------------------------------------------- Monitor.Start (goroutine)
\* m.wg.Add(1); go m.processResults()
StartSink ==
    /\ Alive /\ startPc = 0
    /\ startPc' = 1 /\ wg' = wg + 1 /\ sinkPc' = "select"
    /\ UNCHANGED <<targets, mainPc, ctxDone, closed, panicked, startedFirst, chanVars,
                   workVars, sinkItem, saveFails, zeroRecv, appended,
                   maintVars, dbVars, clock>>

\* m.wg.Add(1); go m.pingWorker(target): the worker begins its first ping.
StartWorker ==
    /\ Alive /\ startPc \in 1..Len(targets)
    /\ startPc' = startPc + 1 /\ wg' = wg + 1
    /\ wPc' = [wPc EXCEPT ![targets[startPc]] = "ping"]
    /\ UNCHANGED <<targets, mainPc, ctxDone, closed, panicked, startedFirst, chanVars,
                   nProbes, lastProbe, offered, sinkVars, maintVars, dbVars, clock>>

\* A maintenanceWorker without its immediate first pass: the task goes
\* straight to the select and waits for the first tick.
StartMaintWaiting ==
    /\ Alive /\ startPc = Len(targets) + 1
    /\ startPc' = NTasks /\ wg' = wg + 1 /\ mPc' = "select"
    /\ UNCHANGED <<targets, mainPc, ctxDone, closed, panicked, startedFirst, chanVars,
                   workVars, sinkVars, ticks, dbVars, clock>>

\* m.wg.Add(1); go m.maintenanceWorker(): the task begins its first pass.
StartMaint ==
    /\ Alive /\ startPc = Len(targets) + 1
    /\ startPc' = NTasks /\ wg' = wg + 1 /\ mPc' = "aggregate"
    /\ UNCHANGED <<targets, mainPc, ctxDone, closed, panicked, startedFirst, chanVars,
                   workVars, sinkVars, ticks, dbVars, clock>>

\* ------------------------------------------------------------------- main()
\* <-sigChan; mon.Stop(): m.cancel()
StopCancel ==
    /\ Alive /\ mainPc = "signal"
    /\ mainPc' = "close" /\ ctxDone' = TRUE
    /\ startedFirst' = (startPc = NTasks)
    /\ preStop' = Len(results)
    /\ UNCHANGED <<targets, startPc, wg, closed, panicked, results, workVars, sinkVars,
                   maintVars, dbVars, clock>>

\* mon.Stop(): close(m.results)
StopClose ==
    /\ Alive /\ mainPc = "close"
    /\ mainPc' = "wait" /\ closed' = TRUE
    /\ UNCHANGED <<targets, startPc, wg, ctxDone, panicked, startedFirst, chanVars,
                   workVars, sinkVars, maintVars, dbVars, clock>>

\* mon.Wait(): m.wg.Wait() returns when the counter is zero.
Wait ==
    /\ Alive /\ mainPc = "wait" /\ wg = 0
    /\ mainPc' = "returned"
    /\ UNCHANGED <<targets, startPc, wg, ctxDone, closed, panicked, startedFirst,
                   chanVars, workVars, sinkVars, maintVars, dbVars, clock>>

\* main returns: the process exits and takes every goroutine with it.
Exit ==
    /\ Alive /\ mainPc = "returned"
    /\ mainPc' = "exited"
    /\ UNCHANGED <<targets, startPc, wg, ctxDone, closed, panicked, startedFirst,
                   chanVars, workVars, sinkVars, maintVars, dbVars, clock>>


\* ------------------------------------------------------- the results channel
\* A send on a channel without a capacity limit: the result is always queued.
TrySendUnbounded(buf, isClosed, r) ==
    IF isClosed THEN [buf |-> buf, how |-> "panic"]
    ELSE [buf |-> Append(buf, r), how |-> "sent"]

\* m.results <- result inside a select with a default: the send panics on a
\* closed channel, enqueues when a slot is free, and is skipped otherwise.
TrySend(buf, isClosed, r) ==
    IF isClosed THEN [buf |-> buf, how |-> "panic"]
    ELSE IF Len(buf) < ResultsCap THEN [buf |-> Append(buf, r), how |-> "sent"]
    ELSE [buf |-> buf, how |-> "dropped"]

\* A receive that hands out the newest buffered result instead of the oldest.
RecvNewest(buf) == [item |-> buf[Len(buf)], buf |-> SubSeq(buf, 1, Len(buf) - 1)]

\* result := <-m.results with a result buffered.
Recv(buf) == [item |-> Head(buf), buf |-> Tail(buf)]

\* --------------------------------------------------------- Monitor.pingWorker
\* performPing with a plain send, m.results <- result, outside any select: the
\* worker waits while the channel is full.
performPingBlocking(t, run) ==
    /\ Alive /\ wPc[t] = "ping"
    /\ Ping(t, nProbes[t] + 1, clock, run).err \/ closed \/ Len(results) < ResultsCap
    /\ LET ret == Ping(t, nProbes[t] + 1, clock, run)
           snd == TrySend(results, closed, ret.result)
           how == IF ret.err THEN "error" ELSE snd.how
       IN  /\ nProbes' = [nProbes EXCEPT ![t] = @ + 1]
           /\ lastProbe' = [target |-> t, run |-> run, ret |-> ret, how |-> how]
           /\ offered' = IF ret.err THEN offered ELSE offered \cup {ret.result}
           /\ results' = IF ret.err THEN results ELSE snd.buf
           /\ panicked' = (how = "panic")
           /\ wPc' = IF how = "panic" THEN wPc ELSE [wPc EXCEPT ![t] = "select"]
    /\ UNCHANGED <<targets, mainPc, startPc, wg, ctxDone, closed, startedFirst, preStop,
                   sinkVars, maintVars, dbVars, clock>>

\* performPing(target): the ping process ends with `run`, Ping returns, and
\* the result is sent unless Ping returned an error.  Both call sites (the
\* immediate first ping and the ticker case) lead into the select.
performPing(t, run) ==
    /\ Alive /\ wPc[t] = "ping"
    /\ LET ret == Ping(t, nProbes[t] + 1, clock, run)
           snd == TrySend(results, closed, ret.result)
           how == IF ret.err THEN "error" ELSE snd.how
       IN  /\ nProbes' = [nProbes EXCEPT ![t] = @ + 1]
           /\ lastProbe' = [target |-> t, run |-> run, ret |-> ret, how |-> how]
           /\ offered' = IF ret.err THEN offered ELSE offered \cup {ret.result}
           /\ results' = IF ret.err THEN results ELSE snd.buf
           /\ panicked' = (how = "panic")
           /\ wPc' = IF how = "panic" THEN wPc ELSE [wPc EXCEPT ![t] = "select"]
    /\ UNCHANGED <<targets, mainPc, startPc, wg, ctxDone, closed, startedFirst, preStop,
                   sinkVars, maintVars, dbVars, clock>>

\* case <-ticker.C: the next probe starts.  The select may take this case
\* whenever a tick is pending, cancelled context or not.
WorkerTick(t) ==
    /\ Alive /\ wPc[t] = "select" /\ nProbes[t] < ProbeLimit
    /\ wPc' = [wPc EXCEPT ![t] = "ping"]
    /\ UNCHANGED <<coordVars, chanVars, nProbes, lastProbe, offered, sinkVars,
                   maintVars, dbVars, clock>>

\* case <-m.ctx.Done(): return, and the deferred m.wg.Done().
WorkerDone(t) ==
    /\ Alive /\ wPc[t] = "select" /\ ctxDone
    /\ wPc' = [wPc EXCEPT ![t] = "done"] /\ wg' = wg - 1
    /\ UNCHANGED <<targets, mainPc, startPc, ctxDone, closed, panicked, startedFirst,
                   chanVars, nProbes, lastProbe, offered, sinkVars, maintVars,
                   dbVars, clock>>

\* ----------------------------------------------------- Monitor.processResults
\* case result := <-m.results, a result being buffered.
SinkRecv ==
    /\ Alive /\ sinkPc = "select" /\ results # <<>>
    /\ sinkItem' = Recv(results).item
    /\ results' = Recv(results).buf
    /\ preStop' = IF preStop > 0 THEN preStop - 1 ELSE 0
    /\ sinkPc' = "save"
    /\ UNCHANGED <<coordVars, workVars, saveFails, zeroRecv, appended,
                   maintVars, dbVars, clock>>

\* case result := <-m.results on the closed, drained channel: the receive
\* yields the zero PingResult at once.
SinkRecvClosed ==
    /\ Alive /\ sinkPc = "select" /\ results = <<>> /\ closed
    /\ zeroRecv < MaxZeroRecv
    /\ sinkItem' = ZeroResult /\ zeroRecv' = zeroRecv + 1
    /\ sinkPc' = "save"
    /\ UNCHANGED <<coordVars, chanVars, workVars, saveFails, appended,
                   maintVars, dbVars, clock>>

\* A sink that retries: after a failed SaveResult it calls SaveResult with the
\* same result again.
SinkSaveRetry(ok) ==
    /\ Alive /\ sinkPc = "save"
    /\ IF ok
       THEN /\ ping_results' = SaveResult(ping_results, sinkItem)
            /\ appended' = Append(appended, Row(sinkItem))
            /\ sinkItem' = ZeroResult
            /\ sinkPc' = "select"
            /\ UNCHANGED saveFails
       ELSE /\ saveFails < MaxSaveFail
            /\ saveFails' = saveFails + 1
            /\ UNCHANGED <<ping_results, appended, sinkItem, sinkPc>>
    /\ UNCHANGED <<coordVars, chanVars, workVars, zeroRecv, maintVars,
                   hourly_patterns, hourly_stats, vacuums, last, clock>>

\* m.db.SaveResult(result) returns; a failure is logged and nothing else.
SinkSave(ok) ==
    /\ Alive /\ sinkPc = "save"
    /\ IF ok
       THEN /\ ping_results' = SaveResult(ping_results, sinkItem)
            /\ appended' = Append(appended, Row(sinkItem))
            /\ UNCHANGED saveFails
       ELSE /\ saveFails < MaxSaveFail
            /\ saveFails' = saveFails + 1
            /\ UNCHANGED <<ping_results, appended>>
    /\ sinkItem' = ZeroResult
    /\ sinkPc' = "select"
    /\ UNCHANGED <<coordVars, chanVars, workVars, zeroRecv, maintVars,
                   hourly_patterns, hourly_stats, vacuums, last, clock>>

\* case <-m.ctx.Done(): return, and the deferred m.wg.Done().
SinkDone ==
    /\ Alive /\ sinkPc = "select" /\ ctxDone
    /\ sinkPc' = "done" /\ wg' = wg - 1
    /\ UNCHANGED <<targets, mainPc, startPc, ctxDone, closed, panicked, startedFirst,
                   chanVars, workVars, sinkItem, saveFails, zeroRecv, appended,
                   maintVars, dbVars, clock>>

\* ------------------------------------------------- the calls on the store
\* db.AggregateHourlyPatterns() at time now; fail: db.Exec returns an error.
CallAggregate(now, fail) ==
    /\ hourly_patterns' = IF fail THEN hourly_patterns
                          ELSE AggregateHourlyPatterns(ping_results, hourly_patterns, now)
    /\ UNCHANGED <<ping_results, hourly_stats, vacuums>>

\* db.ArchiveOldData() at time now with statement failAt failing.
CallArchive(now, failAt) ==
    /\ failAt = 4 => DayOfMonth(now) = 1
    /\ LET r == ArchiveOldData(ping_results, hourly_patterns, hourly_stats, now, failAt)
       IN  /\ ping_results' = r.rows
           /\ hourly_patterns' = r.patt
           /\ hourly_stats' = r.stats
           /\ vacuums' = IF r.vacuum THEN vacuums \cup {now} ELSE vacuums

\* What the last call on the store was, when it was made, whether it returned
\* an error and how many rows it deleted.
Called(op, err, delRows, delPatt) ==
    [op |-> op, err |-> err, at |-> clock, delRows |-> delRows, delPatt |-> delPatt]

\* ------------------------------------------------- Monitor.maintenanceWorker
\* A performMaintenance that returns when AggregateHourlyPatterns fails.
MaintAggregateAbort(fail) ==
    /\ Alive /\ mPc = "aggregate"
    /\ CallAggregate(clock, fail)
    /\ last' = Called("aggregate", fail, 0, 0)
    /\ mPc' = IF fail THEN "select" ELSE "archive"
    /\ UNCHANGED <<coordVars, chanVars, workVars, sinkVars, ticks, clock>>

\* performMaintenance, first half: AggregateHourlyPatterns returns.
MaintAggregate(fail) ==
    /\ Alive /\ mPc = "aggregate"
    /\ CallAggregate(clock, fail)
    /\ last' = Called("aggregate", fail, 0, 0)
    /\ mPc' = "archive"
    /\ UNCHANGED <<coordVars, chanVars, workVars, sinkVars, ticks, clock>>

\* performMaintenance, second half: ArchiveOldData returns.
MaintArchive(failAt) ==
    /\ Alive /\ mPc = "archive"
    /\ CallArchive(clock, failAt)
    /\ last' = Called("archive", failAt # 0,
                      Len(ping_results) - Len(ping_results'),
                      Cardinality(hourly_patterns \ hourly_patterns'))
    /\ mPc' = "select"
    /\ UNCHANGED <<coordVars, chanVars, workVars, sinkVars, ticks, clock>>

\* case <-ticker.C: an hour has passed since the previous tick.
MaintTick ==
    /\ Alive /\ mPc = "select" /\ ticks < MaxMaintTicks
    /\ ticks' = ticks + 1 /\ clock' = clock + TicksPerHour
    /\ mPc' = "aggregate"
    /\ UNCHANGED <<coordVars, chanVars, workVars, sinkVars, dbVars>>

\* case <-m.ctx.Done(): return, and the deferred m.wg.Done().
MaintDone ==
    /\ Alive /\ mPc = "select" /\ ctxDone
    /\ mPc' = "done" /\ wg' = wg - 1
    /\ UNCHANGED <<targets, mainPc, startPc, ctxDone, closed, panicked, startedFirst,
                   chanVars, workVars, sinkVars, ticks, dbVars, clock>>

FailAts == 0..4

Next ==
    \/ StartSink
    \/ StartWorker
    \/ StartMaint
    \/ StopCancel
    \/ StopClose
    \/ Wait
    \/ Exit
    \/ \E t \in Targets, run \in PingRuns : performPing(t, run)
    \/ \E t \in Targets : WorkerTick(t)
    \/ \E t \in Targets : WorkerDone(t)
    \/ SinkRecv
    \/ SinkRecvClosed
    \/ \E ok \in BOOLEAN : SinkSave(ok)
    \/ SinkDone
    \/ \E fail \in BOOLEAN : MaintAggregate(fail)
    \/ \E failAt \in FailAts : MaintArchive(failAt)
    \/ MaintTick
    \/ MaintDone

Spec == Init /\ [][Next]_vars


\* Spec with the fairness of the Go scheduler: every goroutine that can take a
\* step eventually takes one, every ping process ends (it is bounded by its
\* context deadline) and every call on the store returns.  The signal is the
\* environment's: nothing forces it.
SpecLive ==
    /\ Spec
    /\ WF_vars(StartSink) /\ WF_vars(StartWorker) /\ WF_vars(StartMaint)
    /\ WF_vars(StopClose) /\ WF_vars(Wait) /\ WF_vars(Exit)
    /\ \A t \in Targets : WF_vars(\E run \in PingRuns : performPing(t, run))
    /\ \A t \in Targets : WF_vars(WorkerDone(t))
    /\ WF_vars(SinkRecv) /\ WF_vars(SinkSave(TRUE)) /\ WF_vars(SinkDone)
    /\ WF_vars(MaintAggregate(FALSE)) /\ WF_vars(MaintArchive(0))
    /\ WF_vars(MaintDone)

\* ==================================================== the store on its own
\* SpecDB drives the database package through its interface: SaveResult with
\* any PingResult stamped with the current time, the two maintenance calls,
\* and the passage of time.  The monitor's state stays as constructed.
InitDB == Init /\ targets = <<"t1", "t2">>

\* The outcomes SaveResult is called with: a success with its latency or a
\* failure.
Outcomes == {[success |-> TRUE, rtt |-> 2], [success |-> FALSE, rtt |-> 0]}

\* How far the clock moves in one step: a tick, an hour, and the three
\* windows of the maintenance queries.
ClockSteps == {TicksPerHour, AggregateWindowDays * TicksPerDay,
               RawRetentionDays * TicksPerDay, PatternRetentionDays * TicksPerDay}

DBSave(t, o) ==
    /\ Len(appended) < MaxRows
    /\ LET r == PingResult(clock, t, Len(appended) + 1, o.success, o.rtt,
                           IF o.success THEN 0 ELSE 100,
                           IF o.success THEN "" ELSE "output")
       IN  /\ ping_results' = SaveResult(ping_results, r)
           /\ appended' = Append(appended, Row(r))
    /\ last' = Called("save", FALSE, 0, 0)
    /\ UNCHANGED <<coordVars, chanVars, workVars, sinkPc, sinkItem, saveFails,
                   zeroRecv, maintVars, hourly_patterns, hourly_stats, vacuums, clock>>

DBAggregate(fail) ==
    /\ CallAggregate(clock, fail)
    /\ last' = Called("aggregate", fail, 0, 0)
    /\ UNCHANGED <<coordVars, chanVars, workVars, sinkVars, maintVars, clock>>

DBArchive(failAt) ==
    /\ CallArchive(clock, failAt)
    /\ last' = Called("archive", failAt # 0,
                      Len(ping_results) - Len(ping_results'),
                      Cardinality(hourly_patterns \ hourly_patterns'))
    /\ UNCHANGED <<coordVars, chanVars, workVars, sinkVars, maintVars, clock>>

DBTick(d) ==
    /\ ticks < MaxClockSteps
    /\ ticks' = ticks + 1 /\ clock' = clock + d
    /\ UNCHANGED <<coordVars, chanVars, workVars, sinkVars, mPc, dbVars>>

NextDB ==
    \/ \E t \in Targets, o \in Outcomes : DBSave(t, o)
    \/ \E fail \in BOOLEAN : DBAggregate(fail)
    \/ \E failAt \in FailAts : DBArchive(failAt)
    \/ \E d \in ClockSteps : DBTick(d)

SpecDB == InitDB /\ [][NextDB]_vars

\* ============================================ the store under hourly passes
\* SpecHourly follows the store over days: samples are appended during the
\* first ticks, the maintenance task starts at any of them, runs its first
\* pass at once and then one pass every hour, up to the second hour of the
\* next month's day 1.  Here `ticks` counts the clock ticks since the last
\* pass began.
Horizon == (DaysPerMonth + 1 - DayOfMonth(StartClock)) * TicksPerDay + 2 * TicksPerHour

\* m.db.SaveResult(result) while samples arrive.
HSave(t, o) ==
    /\ mPc \in {"idle", "select"}
    /\ clock < StartClock + MaxAppendTicks
    /\ DBSave(t, o)

\* Time passes before the maintenance task starts.
HWait ==
    /\ mPc = "idle" /\ clock < StartClock + MaxAppendTicks - 1
    /\ clock' = clock + 1
    /\ UNCHANGED <<coordVars, chanVars, workVars, sinkVars, maintVars, dbVars>>

\* maintenanceWorker starts: ticker := time.NewTicker(time.Hour) and the
\* immediate first pass.
HStart ==
    /\ mPc = "idle"
    /\ mPc' = "aggregate" /\ ticks' = 0
    /\ UNCHANGED <<coordVars, chanVars, workVars, sinkVars, dbVars, clock>>

\* Time passes between two passes: tick by tick while samples arrive, then
\* up to the next tick of the ticker; case <-ticker.C when the hour is over.
HTick ==
    /\ mPc = "select" /\ clock < StartClock + Horizon
    /\ LET d == IF clock < StartClock + MaxAppendTicks THEN 1 ELSE TicksPerHour - ticks
       IN  /\ clock' = clock + d
           /\ ticks' = IF ticks + d = TicksPerHour THEN 0 ELSE ticks + d
           /\ mPc' = IF ticks + d = TicksPerHour THEN "aggregate" ELSE "select"
    /\ UNCHANGED <<coordVars, chanVars, workVars, sinkVars, dbVars>>

NextHourly ==
    \/ \E o \in Outcomes : HSave("t1", o)
    \/ HWait
    \/ HStart
    \/ HTick
    \/ MaintAggregate(FALSE)
    \/ MaintArchive(0)

SpecHourly == Init /\ [][NextHourly]_vars

\* ================================================= the queries on their own
\* SpecQ stores samples one after the other, each with a later timestamp than
\* the one before, and calls the read queries on the table.
SeqLimit == IF Len(targets) = 1 THEN MaxSeq ELSE MaxMixedSeq

\* Time between two samples: a tick, or a pause longer than every window.
Gaps == {1, (OutageWindowDays + 1) * TicksPerDay}

\* The windows generateTextReport is called with, in hours.
QueryHours == {2, HoursPerDay}

Answered(op, arg, out) ==
    [op |-> op, err |-> FALSE, at |-> clock, delRows |-> 0, delPatt |-> 0,
     arg |-> arg, out |-> out]

QSave(t, success, gap) ==
    /\ Len(ping_results) < SeqLimit
    /\ \E i \in 1..Len(targets) : targets[i] = t
    /\ gap # 1 => ticks < MaxGaps
    /\ LET n == Len(ping_results) + 1
           r == PingResult(clock, t, n, success, IF success THEN 2 + 2 * (n % 2) ELSE 0,
                           IF success THEN 0 ELSE 100,
                           IF success THEN "" ELSE "output")
       IN  ping_results' = SaveResult(ping_results, r)
    /\ clock' = clock + gap
    /\ ticks' = IF gap = 1 THEN ticks ELSE ticks + 1
    /\ last' = Answered("save", 0, {})
    /\ UNCHANGED <<coordVars, chanVars, workVars, sinkVars, mPc,
                   hourly_patterns, hourly_stats, vacuums>>

QReport(hours) ==
    /\ last' = Answered("outageQuery", hours, outageQuery(ping_results, clock, hours))
    /\ UNCHANGED <<coordVars, chanVars, workVars, sinkVars, maintVars,
                   ping_results, hourly_patterns, hourly_stats, vacuums, clock>>

QHandleOutages ==
    /\ \E out \in handleOutages(ping_results, clock) :
          last' = Answered("handleOutages", OutageWindowDays, out)
    /\ UNCHANGED <<coordVars, chanVars, workVars, sinkVars, maintVars,
                   ping_results, hourly_patterns, hourly_stats, vacuums, clock>>

\* Server.handleOutages: s.db.GetOutages(7).  flagged records the rows of the
\* query's outage_periods with is_outage = 1.
QGetOutages ==
    /\ \E out \in GetOutages(ping_results, clock, OutageWindowDays) :
          last' = [flagged |->
                     {[target |-> r.target, ts |-> r.ts] :
                      r \in Flagged(OutagePeriods(WindowedPings(ping_results, clock,
                                                                 OutageWindowDays)))}]
                  @@ Answered("GetOutages", OutageWindowDays, out)
    /\ UNCHANGED <<coordVars, chanVars, workVars, sinkVars, maintVars,
                   ping_results, hourly_patterns, hourly_stats, vacuums, clock>>

\* Server.handleStats: s.db.GetStats(24).
QGetStats ==
    /\ last' = Answered("GetStats", StatsWindowHours,
                        GetStats(ping_results, clock, StatsWindowHours))
    /\ UNCHANGED <<coordVars, chanVars, workVars, sinkVars, maintVars,
                   ping_results, hourly_patterns, hourly_stats, vacuums, clock>>

NextQ ==
    \/ QGetStats
    \/ \E t \in Targets, success \in BOOLEAN, gap \in Gaps : QSave(t, success, gap)
    \/ \E hours \in QueryHours : QReport(hours)
    \/ QHandleOutages
    \/ QGetOutages

SpecQ == Init /\ [][NextQ]_vars

\* ======================================= the store with the earlier prober
\* SpecStored holds the samples the earlier Pinger.Ping returned and the
\* pipeline stored: besides the outcomes of the current one, a successful
\* run whose output parsePingOutput did not parse, success with RTT 0.
StoredOutcomes == Outcomes \cup {[success |-> TRUE, rtt |-> 4], [success |-> TRUE, rtt |-> 0]}

NextStored ==
    \/ \E o \in StoredOutcomes : DBSave("t1", o)
    \/ DBAggregate(FALSE)
    \/ QGetStats

SpecStored == Init /\ [][NextStored]_vars

\* ================================================== the parser on its own
\* SpecParse applies parsePingOutput to outputs made of up to MaxLines lines,
\* each in one of the formats of the reference outputs (TestParsePingOutput)
\* or without a timing.  A line records the patterns written for its format
\* (pats) and the number embedded in it (v).
LineReply(v)   == [pats |-> {1, 2}, v |-> v,
                   toks |-> <<Tok("txt"), Tok("timeEq"), Num(v), Tok("ms"), Tok("sp"), Tok("txt")>>]
LineReplySp(v) == [pats |-> {2}, v |-> v,
                   toks |-> <<Tok("txt"), Tok("timeEq"), Num(v), Tok("sp"), Tok("ms")>>]
LineSummary4(v) == [pats |-> {3}, v |-> v,
                   toks |-> <<Tok("rt4"), Num(1), Tok("slash"), Num(v), Tok("slash"), Num(7),
                              Tok("slash"), Num(0), Tok("sp"), Tok("ms")>>]
LineSummary3(v) == [pats |-> {4}, v |-> v,
                   toks |-> <<Tok("rt3"), Num(1), Tok("slash"), Num(v), Tok("slash"), Num(7),
                              Tok("sp"), Tok("ms")>>]
LineSubMs   == [pats |-> {}, v |-> 0,
                toks |-> <<Tok("txt"), Tok("timeLt"), Num(1), Tok("ms"), Tok("sp"), Tok("txt")>>]
LineUnknown == [pats |-> {}, v |-> 0, toks |-> <<Tok("txt")>>]

Lines == {LineReply(3), LineReplySp(2), LineReplySp(5), LineReplySp(BadNum),
          LineSummary4(4), LineSummary3(6), LineSubMs, LineUnknown}

LineSeqs == UNION {[1..n -> Lines] : n \in 0..MaxLines}

\* The output: the lines, each followed by a newline (white space).
RECURSIVE Join(_)
Join(ls) == IF ls = <<>> THEN <<>> ELSE Head(ls).toks \o <<Tok("sp")>> \o Join(Tail(ls))

\* parsePingOutput(output) returns; one call per behaviour.
ParseOutput(ls) ==
    /\ lastProbe.how = "none"
    /\ lastProbe' = [lines |-> ls, parsed |-> parsePingOutput(Join(ls))]
                    @@ [NoProbe EXCEPT !.how = "parsed",
                                       !.run = [deadline |-> FALSE, exitErr |-> FALSE,
                                                out |-> Join(ls)]]
    /\ UNCHANGED <<coordVars, chanVars, wPc, nProbes, offered, sinkVars, maintVars,
                   dbVars, clock>>

NextParse == \E ls \in LineSeqs : ParseOutput(ls)

SpecParse == Init /\ [][NextParse]_vars

\* ================================================================ the claims
Probed == lastProbe.how # "none"
ProbeFailed == lastProbe.run.deadline \/ lastProbe.run.exitErr

\* C1: every probe that fails because the target is unreachable or the probe
\* timed out yields a Sample with success=false that the worker offers to the
\* pipeline; the worker never discards a failed probe.
C1_FailedProbeOffered ==
    (Probed /\ ProbeFailed) =>
        /\ ~lastProbe.ret.result.success
        /\ lastProbe.ret.result \in offered

\* C2: once Stop() has cancelled the context and closed the pipeline, no
\* worker sends on the pipeline: no send on the closed channel happens.
C2_NoSendOnClosed == ~(closed /\ lastProbe.how = "panic")

\* C3: every Sample enqueued before Stop() has been received by the sink (and
\* passed to SaveResult) when processResults returns.
C3_SinkDrains == sinkPc = "done" => preStop = 0

TaskExited(pc) == pc \in {"idle", "done"}

\* C5: as main composes the program, when Wait() has returned every task has
\* exited, no task is running or starts afterwards, and no SaveResult call is
\* in flight.
C5_WaitJoinsAll ==
    mainPc \in {"returned", "exited"} =>
        /\ TaskExited(sinkPc) /\ TaskExited(mPc)
        /\ \A t \in Targets : TaskExited(wPc[t])
        /\ startPc \in {0, NTasks}
        /\ startPc = 0 => ~ENABLED StartSink

\* C6: after Start() followed by Stop(), Wait() eventually returns.
C6_WaitReturns ==
    (startedFirst /\ mainPc = "wait") ~> (mainPc \in {"returned", "exited"})

RowsOf(t) == LET Of(r) == r.target = t IN SelectSeq(appended, Of)

\* C7: per target, the rows appended to the store are, in the same order, a
\* subsequence of the outcomes that target's worker produced: every row is
\* such an outcome, ordinals strictly increase (no reordering, no duplicate).
C7_PerTargetSubsequence ==
    \A t \in Targets :
        /\ \A i \in 1..Len(RowsOf(t)) :
              \E o \in offered : o.target = t /\ RowsOf(t)[i] = Row(o)
        /\ \A i, j \in 1..Len(RowsOf(t)) : i < j => RowsOf(t)[i].n < RowsOf(t)[j].n

\* C7 witness: the first and the third outcome of a target are in the store,
\* in that order; the second one was offered to the pipeline and is absent.
C7_Witness ==
    /\ Len(RowsOf("t1")) = 2
    /\ RowsOf("t1")[1].n = 1 /\ RowsOf("t1")[2].n = 3
    /\ \E o \in offered : o.target = "t1" /\ o.n = 2

\* C8: no Sample with success=true and round_trip_time <= 0 is returned by
\* the prober or appended to the store; a ping that exits successfully with
\* no parseable round-trip time yields success=false with the error message
\* "unable to parse round-trip time".
C8_NoZeroLatencySuccess ==
    /\ \A i \in 1..Len(appended) : ~(appended[i].success /\ appended[i].rtt <= 0)
    /\ Probed => ~(lastProbe.ret.result.success /\ lastProbe.ret.result.rtt <= 0)
    /\ (Probed /\ ~ProbeFailed /\ parsePingOutput(lastProbe.run.out) <= 0) =>
          /\ ~lastProbe.ret.result.success
          /\ lastProbe.ret.result.msg = "unable to parse round-trip time"

\* C8 witness: a ping exited successfully, printed no parseable time, and a
\* parsed success of the same worker is in the store.
C8_Witness ==
    /\ Probed /\ lastProbe.run = RunUnparsed
    /\ \E i \in 1..Len(appended) : appended[i].success


\* C9: AggregateHourlyPatterns is idempotent: right after a successful call,
\* with the raw samples and the clock unchanged, a second call leaves
\* hourly_patterns exactly as it is (same keys, counts and failure_rate).
C9_AggregateIdempotent ==
    (last.op = "aggregate" /\ ~last.err /\ last.at = clock) =>
        AggregateHourlyPatterns(ping_results, hourly_patterns, clock) = hourly_patterns

\* C9 witness: after a successful call the table holds a row recomputed from
\* two samples, one of them failed, next to a row of a bucket that has left
\* the aggregation window.
C9_Witness ==
    /\ last.op = "aggregate" /\ ~last.err /\ last.at = clock
    /\ \E p \in hourly_patterns : p.total_pings = 2 /\ p.failed_pings = 1
    /\ \E q \in hourly_patterns : q.date < Date(clock) - AggregateWindowDays

\* C10: after a call of ArchiveOldData that returned no error, ping_results
\* holds no row older than 7 days before the call and hourly_patterns no row
\* whose date is more than 90 days before the call's date.
C10_ArchivePrunes ==
    (last.op = "archive" /\ ~last.err) =>
        /\ \A i \in 1..Len(ping_results) :
              ~(ping_results[i].ts < last.at - RawRetentionDays * TicksPerDay)
        /\ \A p \in hourly_patterns :
              ~(p.date < Date(last.at) - PatternRetentionDays)

\* C10 witness: a successful call deleted a raw row and a pattern row and
\* kept a raw row that is inside the retention window.
C10_Witness ==
    /\ last.op = "archive" /\ ~last.err
    /\ last.delRows > 0 /\ last.delPatt > 0
    /\ ping_results # <<>>


\* The maximal runs of consecutive failures of length >= MinRunLength in
\* each target's time-ordered samples of the last `width` ticks.
RunsExpected(width) ==
    UNION {LET seq == Partition(InWindow(ping_results, clock, width), t)
               Fails(i, j) == \A k \in i..j : ~seq[k].success
           IN  {[target |-> t, start_time |-> seq[ij[1]].ts, end_time |-> seq[ij[2]].ts,
                 failed_checks |-> ij[2] - ij[1] + 1] :
                ij \in {x \in (1..Len(seq)) \X (1..Len(seq)) :
                          /\ x[1] <= x[2] /\ Fails(x[1], x[2])
                          /\ x[2] - x[1] + 1 >= MinRunLength
                          /\ (x[1] = 1 \/ seq[x[1] - 1].success)
                          /\ (x[2] = Len(seq) \/ seq[x[2] + 1].success)}}
           : t \in Targets}

SeqInDays(t) == Partition(InWindow(ping_results, clock, last.arg * TicksPerDay), t)

\* C12: in GetOutages the sample at position i of a target's time-ordered
\* sequence is flagged as in-outage if and only if i >= 10 (it has 9
\* predecessors in the window) and at least 5 of the samples i-9..i failed:
\* none of the first 9 is flagged, and the 10th is with 5 failures and is not
\* with 4.
C12_FlagIffFiveOfTen ==
    last.op = "GetOutages" =>
        \A t \in Targets : \A i \in 1..Len(SeqInDays(t)) :
            ([target |-> t, ts |-> SeqInDays(t)[i].ts] \in last.flagged)
            <=> /\ i >= 10
                /\ Cardinality({k \in (i - 9)..i : ~SeqInDays(t)[k].success}) >= 5

\* C12 witness: a target has more than 10 samples in the window, exactly 5
\* of the first 10 failed, the 10th is flagged and the 11th is not.
C12_Witness ==
    /\ last.op = "GetOutages"
    /\ Len(SeqInDays("t1")) > 10
    /\ Cardinality({k \in 1..10 : ~SeqInDays("t1")[k].success}) = 5
    /\ [target |-> "t1", ts |-> SeqInDays("t1")[10].ts] \in last.flagged
    /\ [target |-> "t1", ts |-> SeqInDays("t1")[11].ts] \notin last.flagged


\* C13: the outage list of /api/outages (GetOutages(7)) lists every failure
\* of 3 or more consecutive failed pings of a target within the last 7 days:
\* each such run lies inside a listed outage of its target.
C13_ListsEveryRun ==
    last.op = "GetOutages" =>
        \A run \in RunsExpected(last.arg * TicksPerDay) :
            \E o \in last.out :
                /\ o.target = run.target
                /\ o.start_time <= run.start_time /\ run.end_time <= o.end_time


\* A target's time-ordered samples in the window of the last call, in hours.
SeqInHours(t) == Partition(InWindow(ping_results, clock, last.arg * TicksPerHour), t)
Successes(seq) == Cardinality({i \in 1..Len(seq) : seq[i].success})

\* C14: GetStats returns exactly one row for every target with at least one
\* sample in the window, a target whose samples all failed included, and no
\* row for other targets; the row's packet loss is
\* round((1 - successful / total) * 100, 2).
C14_OneRowPerTarget ==
    last.op = "GetStats" =>
        \A t \in Targets :
            LET seq == SeqInHours(t)
                mine == {r \in last.out : r.target = t}
            IN  /\ Cardinality(mine) = IF seq # <<>> THEN 1 ELSE 0
                /\ \A r \in mine :
                      /\ r.total_pings = Len(seq)
                      /\ r.successful_pings = Successes(seq)
                      /\ r.packet_loss =
                            (2 * (Len(seq) - Successes(seq)) * 10000 + Len(seq))
                                \div (2 * Len(seq))


\* C15: the maintenance task runs a pass at once when it starts, then one pass
\* per tick; a pass begins only at the start or at a tick, never inside
\* another pass; in every pass ArchiveOldData is called only after that
\* pass's AggregateHourlyPatterns has returned.
C15_MaintenancePasses ==
    [][/\ (mPc = "idle" /\ mPc' # "idle") => mPc' = "aggregate"
       /\ (mPc' = "aggregate" /\ mPc # "aggregate") =>
              (mPc = "idle" \/ (mPc = "select" /\ ticks' = ticks + 1))
       /\ ticks' # ticks => (mPc = "select" /\ mPc' = "aggregate")
       /\ (last' # last /\ last'.op = "aggregate") =>
              (mPc = "aggregate" /\ mPc' = "archive")
       /\ (last' # last /\ last'.op = "archive") =>
              /\ last.op = "aggregate" /\ last.at = clock
              /\ mPc = "archive" /\ mPc' = "select"]_vars

\* C15 witness: the pass of the first tick has ended, after the pass of the
\* start.
C15_Witness ==
    /\ ticks = 1 /\ mPc = "select"
    /\ last.op = "archive" /\ last.at = clock

\* C16: after a failed AggregateHourlyPatterns the task is about to call
\* ArchiveOldData and can; after a failed ArchiveOldData the task is alive
\* (it ends only on cancellation) and the pass of the next tick can begin.
C16_FailureDoesNotAbort ==
    /\ (last.op = "aggregate" /\ last.err) =>
          (mPc = "archive" /\ (Alive => ENABLED MaintArchive(0)))
    /\ (last.op = "archive" /\ last.err) =>
          /\ mPc \in {"select", "aggregate"} \/ (mPc = "done" /\ ctxDone)
          /\ (Alive /\ mPc = "select" /\ ticks < MaxMaintTicks) => ENABLED MaintTick

\* C16 witness: the pass of the next tick has begun after ArchiveOldData
\* failed.
C16_Witness ==
    /\ last.op = "archive" /\ last.err
    /\ mPc = "aggregate" /\ ticks = 1

\* C17: a sample whose SaveResult failed is gone for good (every receive ends
\* in one row or in one failure, so rows, failures and samples still queued
\* never outnumber the samples sent plus the zero values received), and the
\* failing call leaves the sink at its select and every worker as it was.
C17_FailedSaveDropped ==
    /\ [](Len(appended) + saveFails + Len(results) + (IF sinkPc = "save" THEN 1 ELSE 0)
              <= Cardinality(offered) + zeroRecv)
    /\ [][saveFails' # saveFails =>
              /\ sinkPc' = "select" /\ appended' = appended /\ results' = results
              /\ wPc' = wPc /\ wg' = wg /\ panicked' = panicked]_vars

\* C17 witness: three samples were sent, none was dropped at the pipeline,
\* the second one's SaveResult failed, and the third one is in the store.
C17_Witness ==
    /\ saveFails = 1 /\ zeroRecv = 0 /\ results = <<>> /\ sinkPc = "select"
    /\ Cardinality(offered) = 3 /\ Len(appended) = 2
    /\ appended[1].n = 1 /\ appended[2].n = 3


\* The number the claim expects for an output made of the lines ls: for each
\* pattern in priority order, the first line written in that pattern's format
\* decides; its number is returned when it is one.
RECURSIVE ExpectFrom(_, _)
ExpectFrom(ls, p) ==
    IF p > 4 THEN 0
    ELSE LET hits == {i \in 1..Len(ls) : p \in ls[i].pats}
             first == CHOOSE i \in hits : \A j \in hits : i <= j
         IN  IF hits # {} /\ ls[first].v # BadNum THEN ls[first].v
             ELSE ExpectFrom(ls, p + 1)

\* C18: parsePingOutput returns the number captured by the first pattern, in
\* the fixed priority order, that matches: the embedded number of an output in
\* a reference format, the per-reply value when a per-reply line and a
\* summary line are both present, and 0 when no line carries a timing
\* (unknown host, empty output, "time<1ms").
C18_FirstPatternWins ==
    lastProbe.how = "parsed" =>
        /\ lastProbe.parsed = ExpectFrom(lastProbe.lines, 1)
        /\ (\A i \in 1..Len(lastProbe.lines) : lastProbe.lines[i].pats = {})
              => lastProbe.parsed = 0
        /\ \A i, j \in 1..Len(lastProbe.lines) :
              (/\ lastProbe.lines[i].pats = {2} /\ lastProbe.lines[i].v # BadNum
               /\ \A k \in 1..Len(lastProbe.lines) :
                     lastProbe.lines[k].pats \in {{2}, {3}, {4}, {}}
               /\ \A k \in 1..(i - 1) : lastProbe.lines[k].pats # {2}
               /\ lastProbe.lines[j].pats \in {{3}, {4}})
              => lastProbe.parsed = lastProbe.lines[i].v

\* C18 witness: a summary line comes before a per-reply line with another
\* number, and the per-reply number is returned.
C18_Witness ==
    /\ lastProbe.how = "parsed"
    /\ Len(lastProbe.lines) = 3
    /\ lastProbe.lines[1] = LineSummary4(4)
    /\ lastProbe.lines[2] = LineReplySp(5)
    /\ lastProbe.lines[3] = LineSubMs
    /\ lastProbe.parsed = 5


\* The samples ever appended for a pattern bucket / a rollup bucket.
InPatternBucket(date, hour, target) ==
    {i \in 1..Len(appended) : /\ Date(appended[i].ts) = date
                              /\ Hour(appended[i].ts) = hour
                              /\ appended[i].target = target}
InStatBucket(hour, target) ==
    {i \in 1..Len(appended) : /\ HourStamp(appended[i].ts) = hour
                              /\ appended[i].target = target}

\* C19: after any appends and hourly passes, with no sample appended since
\* the last pass, every HourlyPattern row holds the counts over all samples
\* appended for its (date, hour, target) bucket.
C19_PatternCountsWhole ==
    (last.op \in {"aggregate", "archive"} /\ ~last.err) =>
        \A p \in hourly_patterns :
            /\ p.total_pings = Cardinality(InPatternBucket(p.date, p.hour, p.target))
            /\ p.failed_pings =
                  Cardinality({i \in InPatternBucket(p.date, p.hour, p.target) :
                                  ~appended[i].success})

\* C20: between passes, every (hour, target) bucket all of whose raw samples
\* have been deleted has an HourlyStat row with total_pings and
\* successful_pings equal to the counts over all samples appended in it.
C20_TotalsSurvive ==
    mPc = "select" =>
        \A i \in 1..Len(appended) :
            LET hour == HourStamp(appended[i].ts)
                tgt == appended[i].target
            IN  (\A j \in 1..Len(ping_results) :
                    ~(HourStamp(ping_results[j].ts) = hour /\ ping_results[j].target = tgt))
                => \E h \in hourly_stats :
                      /\ h.hour = hour /\ h.target = tgt
                      /\ h.total_pings = Cardinality(InStatBucket(hour, tgt))
                      /\ h.successful_pings =
                            Cardinality({k \in InStatBucket(hour, tgt) : appended[k].success})

\* C21: once the context is cancelled, a worker waiting in its select starts
\* no further probe and the maintenance task waiting in its select starts no
\* further pass, a pending tick notwithstanding.
C21_NoWorkAfterCancel ==
    [][ctxDone =>
          /\ \A t \in Targets : wPc[t] = "select" => wPc'[t] # "ping"
          /\ mPc = "select" => mPc' # "aggregate"]_vars

\* C22: over any sequence of hourly maintenance passes VACUUM is executed at
\* most once within a calendar month, and only on day 1.
C22_VacuumOncePerMonth ==
    /\ \A a \in vacuums : DayOfMonth(a) = 1
    /\ \A a, b \in vacuums : Month(a) = Month(b) => a = b

\* C23: every outage GetOutages returns starts at the timestamp of a failed
\* sample of its target, ends at the timestamp of a failed sample, and has
\* failed_checks equal to the number of failed samples of the target between
\* start_time and end_time.
C23_OutageBoundsAreFailures ==
    last.op = "GetOutages" =>
        \A o \in last.out :
            LET seq == SeqInDays(o.target)
                failed == {i \in 1..Len(seq) : ~seq[i].success}
            IN  /\ \E i \in failed : seq[i].ts = o.start_time
                /\ \E i \in failed : seq[i].ts = o.end_time
                /\ o.failed_checks =
                      Cardinality({i \in failed : /\ o.start_time <= seq[i].ts
                                                  /\ seq[i].ts <= o.end_time})

\* C24: a call of ArchiveOldData, failed or not, leaves in place and unchanged
\* every raw sample not older than 7 days, every HourlyPattern row not older
\* than 90 days and every HourlyStat row that existed; and no maintenance
\* call changes a raw sample in place (the rows after it are rows that were
\* there before it).
C24_ArchiveFrame ==
    [][/\ last'.op = "archive" =>
            /\ \A i \in 1..Len(ping_results) :
                  ping_results[i].ts >= clock - RawRetentionDays * TicksPerDay
                  => \E j \in 1..Len(ping_results') : ping_results'[j] = ping_results[i]
            /\ \A p \in hourly_patterns :
                  p.date >= Date(clock) - PatternRetentionDays => p \in hourly_patterns'
            /\ hourly_stats \subseteq hourly_stats'
       /\ last'.op \in {"aggregate", "archive"} =>
            \A j \in 1..Len(ping_results') :
                \E i \in 1..Len(ping_results) : ping_results[i] = ping_results'[j]]_vars

\* C24 witness: a successful ArchiveOldData call deleted raw samples and left
\* a raw sample, a pattern row of the deleted samples' day and a rollup.
C24_Witness ==
    /\ last.op = "archive" /\ ~last.err /\ last.at = clock
    /\ last.delRows > 0
    /\ ping_results # <<>>
    /\ \E p \in hourly_patterns : p.date < Date(clock) - RawRetentionDays
    /\ hourly_stats # {}

\* C25: in every reachable state of the store hourly_patterns holds at most
\* one row per (date, hour, target), and in every row total_pings >= 1,
\* 0 <= failed_pings <= total_pings and failure_rate is
\* failed_pings / total_pings * 100 rounded to two decimals (in hundredths of
\* a percent: within half a hundredth of the quotient), so between 0 and 100.
C25_PatternRowsSound ==
    /\ \A p, q \in hourly_patterns : PatternKey(p) = PatternKey(q) => p = q
    /\ \A p \in hourly_patterns :
          /\ p.total_pings >= 1
          /\ 0 <= p.failed_pings /\ p.failed_pings <= p.total_pings
          /\ 2 * (p.failure_rate * p.total_pings - 10000 * p.failed_pings) <= p.total_pings
          /\ 2 * (10000 * p.failed_pings - p.failure_rate * p.total_pings) <= p.total_pings
          /\ 0 <= p.failure_rate /\ p.failure_rate <= 10000

\* C25 witness: a bucket's row was replaced after another sample arrived (it
\* counts three samples, one of them failed, a rate that needs rounding) and
\* the table holds that one row only.
C25_Witness ==
    /\ last.op = "aggregate" /\ ~last.err
    /\ \E p \in hourly_patterns :
          /\ p.total_pings = 3 /\ p.failed_pings = 1 /\ p.failure_rate = 3333
          /\ hourly_patterns = {p}

\* C26: an HourlyStat row is written once: hourly_stats holds at most one row
\* per (hour, target), and no step, in particular no later ArchiveOldData
\* call that finds raw samples of the row's bucket, changes or deletes a row
\* that exists.
C26_StatWrittenOnce ==
    /\ [](\A g, h \in hourly_stats : StatKey(g) = StatKey(h) => g = h)
    /\ [][hourly_stats \subseteq hourly_stats']_vars

\* C26 witness: a rollup row exists for a bucket of which a later
\* ArchiveOldData call has rolled up and deleted further samples.
C26_Witness ==
    /\ last.op = "archive" /\ ~last.err /\ last.delRows > 0
    /\ \E h \in hourly_stats :
          /\ h.total_pings < Cardinality(InStatBucket(h.hour, h.target))
          /\ \A j \in 1..Len(ping_results) : HourStamp(ping_results[j].ts) # h.hour

\* The successful samples of a target with a parsed round-trip time among
\* the stored ones.
ParsedOf(t) ==
    LET Ok(r) == r.target = t /\ r.success /\ r.rtt > 0 IN SelectSeq(ping_results, Ok)

\* C27: a stored sample with success = true and round-trip time 0 does not
\* enter latency averages as a zero: avg_rtt_ms of a HourlyPattern row and
\* avg_rtt of GetStats are the average over the successful samples with a
\* parsed round-trip time, NULL when there is none.
C27_DegenerateNotAveraged ==
    /\ (last.op = "aggregate" /\ ~last.err) =>
           \A p \in hourly_patterns : p.avg_rtt_ms = AvgRtt(ParsedOf(p.target))
    /\ last.op = "GetStats" =>
           \A r \in last.out : r.avg_rtt = AvgRtt(ParsedOf(r.target))

\* C28: in every reachable state the pipeline holds at most its capacity of
\* results, and every step that changes it is a send of a result a worker
\* offered, onto a free slot, or the sink's receive of the oldest result.
C28_PipelineBounded ==
    /\ [](Len(results) <= ResultsCap)
    /\ [][\/ results' = results
          \/ /\ Len(results) < ResultsCap
             /\ \E r \in offered' : results' = Append(results, r)
          \/ /\ results # <<>>
             /\ results' = Tail(results) /\ sinkItem' = Head(results)]_vars

\* C28 witness: with the sink idle at its select after a save, the pipeline
\* is at capacity and the last result offered was dropped.
C28_Witness ==
    /\ Len(results) = ResultsCap /\ lastProbe.how = "dropped"
    /\ sinkPc = "select" /\ appended # <<>>

\* C29: every sample the sink passes to SaveResult, and so every sample
\* appended to the store, is a result a worker sent on the pipeline, with one
\* of the configured targets, also after Stop() has closed the pipeline.
C29_SinkSavesOnlySent ==
    /\ sinkPc = "save" => sinkItem \in offered
    /\ \A i \in 1..Len(appended) :
          /\ \E o \in offered : Row(o) = appended[i]
          /\ \E k \in 1..Len(targets) : targets[k] = appended[i].target

\* C30: within one ArchiveOldData call the statements run in the order rollup
\* insert, raw-sample delete, pattern delete, and a failing statement ends the
\* call with its error: when the rollup insert fails no table changes, when
\* the raw-sample delete fails no raw sample and no pattern row is deleted,
\* when the pattern delete fails no pattern row is deleted; and the rollup
\* comes first: every sample that has been deleted while inside the 90-day
\* rollup window has the HourlyStat row of its bucket.
C30_ArchiveStepsInOrder ==
    /\ [](\A i \in 1..Len(appended) :
             (/\ \A j \in 1..Len(ping_results) : ping_results[j] # appended[i]
              /\ appended[i].ts > clock - PatternRetentionDays * TicksPerDay)
             => \E h \in hourly_stats :
                   StatKey(h) = <<HourStamp(appended[i].ts), appended[i].target>>)
    /\ [][\A f \in FailAts :
            DBArchive(f) =>
               /\ last'.err = (f # 0)
               /\ f = 1 => /\ ping_results' = ping_results
                           /\ hourly_patterns' = hourly_patterns
                           /\ hourly_stats' = hourly_stats
               /\ f = 2 => /\ ping_results' = ping_results
                           /\ hourly_patterns' = hourly_patterns
               /\ f = 3 => hourly_patterns' = hourly_patterns]_vars

\* C30 witness: an ArchiveOldData call returned an error and left in place a
\* raw sample older than 7 days and a pattern row older than 90 days.
C30_Witness ==
    /\ last.op = "archive" /\ last.err /\ last.at = clock
    /\ last.delRows = 0 /\ last.delPatt = 0
    /\ \E i \in 1..Len(ping_results) :
          ping_results[i].ts < clock - RawRetentionDays * TicksPerDay
    /\ \E p \in hourly_patterns : p.date < Date(clock) - PatternRetentionDays


====
